---- MODULE Spec2Model ----
(***************************************************************************)
(* Local-first synchronisation manager of the job application tracker:     *)
(* the useLocalStorage cache, the useSyncManager hook built on it, and the *)
(* mount-time initial sync of the application component.                   *)
(*                                                                         *)
(* React closures are modelled explicitly.  A callback reads the state of  *)
(* the render that created it: a call made from the UI reads the current   *)
(* state, a continuation after an await still reads the state captured     *)
(* when the call was made, and the two effects registered with an empty    *)
(* dependency list (the 'online' listener and the initial sync) keep the   *)
(* callbacks of the first render for ever.                                 *)
(***************************************************************************)
EXTENDS Integers, Sequences, FiniteSets, Bags

\* ------------------------------------------------------------------ bounds
MaxInflight == 2      \* remote requests outstanding at the same time
MaxEvents == 3         \* hook calls, connectivity events and clock ticks after mount
NumServerIds == 1     \* identifiers the backend hands out
MaxCacheLen == 2      \* records of a list handed to useLocalStorage on its own
MaxCacheOps == 2      \* calls made on useLocalStorage on its own after its load

\* backend identifiers are small serial numbers, client clock values
\* (Date.now()) lie above them; the backend stamps its records with its own
\* clock, which lies before the client's
ServerTime == 1
StartTime == NumServerIds + 2
MaxTime == StartTime + MaxEvents

ServerIds == 1..NumServerIds
Titles == {"a"}
UpdateTitles == {"u"}

\* applications, cache and stored belong to the useLocalStorage instance of
\* useSyncManager (the list, its isLoading and error flags, the
\* 'jobApplications' item); ui is the list of the second useLocalStorage
\* instance, the one the application component mounts for its views; ghost
\* is a history variable no handler reads
VARIABLES applications, stored, cache, syncStatus, lsPending, lsLastSync,
          navOnline, now, inflight, mounted, events, ghost, ui, last

vars == <<applications, stored, cache, syncStatus, lsPending, lsLastSync,
          navOnline, now, inflight, mounted, events, ghost, ui, last>>

\* the state useLocalStorage neither reads nor writes
syncVars == <<syncStatus, lsPending, lsLastSync, navOnline, now, inflight,
              mounted, ghost, ui>>

\* ------------------------------------------------------------------ values
NullDate == 0
NullError == "null"
SyncFailedMessage == "Failed to sync with backend"
LoadFailedMessage == "Failed to load applications from local storage"
SaveFailedMessage == "Failed to save applications to local storage"
NoItem == <<>>

JobApplication(id, title, created, updated) ==
  [id |-> id, job_title |-> title, created_at |-> created, updated_at |-> updated]

NoRec == JobApplication(0, "", 0, 0)

Max(a, b) == IF a >= b THEN a ELSE b

\* Number.prototype.toString: decimal digits, most significant first
RECURSIVE NumberToString(_)
NumberToString(n) ==
  IF n < 10 THEN <<n>> ELSE Append(NumberToString(n \div 10), n % 10)

\* parseInt(s, 10) of a digit string
RECURSIVE ParseInt(_)
ParseInt(s) ==
  IF Len(s) = 1 THEN s[1]
  ELSE 10 * ParseInt(SubSeq(s, 1, Len(s) - 1)) + s[Len(s)]

\* Date.prototype.toISOString and new Date(string) on the stored item
ToISOString(t) == <<t>>
ParseDate(s) == s[1]

Ids(list) == {list[i].id : i \in 1..Len(list)}

\* ------------------------------------------- the 'jobApplications' item
\* localStorage.getItem returns null when the key was never written
NoCacheItem == [present |-> FALSE, wellFormed |-> TRUE, entries |-> <<>>]

\* an item JSON.parse throws on
CorruptItem == [present |-> TRUE, wellFormed |-> FALSE, entries |-> <<>>]

\* JSON.stringify of a list: one entry per record, in list order, each entry
\* the record's values in the order of its keys
JSONStringify(list) ==
  [present |-> TRUE, wellFormed |-> TRUE,
   entries |-> [i \in 1..Len(list) |->
                  <<list[i].id, list[i].job_title, list[i].created_at,
                    list[i].updated_at>>]]

\* variant: the entries are read back last to first
JSONParseReversed(item) ==
  [i \in 1..Len(item.entries) |->
     LET e == item.entries[Len(item.entries) + 1 - i]
     IN JobApplication(e[1], e[2], e[3], e[4])]

\* JSON.parse of a well-formed item
JSONParse(item) ==
  [i \in 1..Len(item.entries) |->
     LET e == item.entries[i]
     IN JobApplication(e[1], e[2], e[3], e[4])]

\* ------------------------------------------------- useLocalStorage (cache)
\* variant: the new record is put in front of the list
addApplicationPrepend(prev, application) == <<application>> \o prev

\* setApplications(prev => [...prev, application])
addApplication(prev, application) == Append(prev, application)

\* { ...app, ...updates }: the fields of updates laid over those of app
Spread(app, updates) ==
  [f \in DOMAIN app \cup DOMAIN updates |->
     IF f \in DOMAIN updates THEN updates[f] ELSE app[f]]

\* variant: a partial payload is laid over the record and updated_at is
\* left to the payload
updateApplicationNoRefresh(prev, id, updates, t) ==
  [i \in 1..Len(prev) |->
     IF prev[i].id = id
     THEN IF "id" \in DOMAIN updates /\ updates.id = id
          THEN updates
          ELSE Spread(prev[i], updates)
     ELSE prev[i]]

\* variant: a partial payload is laid over every record of the list
updateApplicationEveryRecord(prev, id, updates, t) ==
  [i \in 1..Len(prev) |->
     IF "id" \in DOMAIN updates /\ updates.id = id
     THEN IF prev[i].id = id THEN updates ELSE prev[i]
     ELSE [Spread(prev[i], updates) EXCEPT !.updated_at = t]]

\* setApplications(prev => prev.map(...)): a payload carrying the same id
\* replaces the record, any other payload is laid over it and updated_at is
\* refreshed
updateApplication(prev, id, updates, t) ==
  [i \in 1..Len(prev) |->
     IF prev[i].id = id
     THEN IF "id" \in DOMAIN updates /\ updates.id = id
          THEN updates
          ELSE [Spread(prev[i], updates) EXCEPT !.updated_at = t]
     ELSE prev[i]]

\* variant: when no record carries the id the first record is removed
deleteApplicationOrHead(prev, id) ==
  IF id \in Ids(prev) \/ prev = <<>>
  THEN SelectSeq(prev, LAMBDA app : app.id # id)
  ELSE Tail(prev)

\* setApplications(prev => prev.filter(app => app.id !== id))
deleteApplication(prev, id) == SelectSeq(prev, LAMBDA app : app.id # id)

\* setApplications([])
clearAllApplications == <<>>

\* setApplications(backendApplications)
syncLocalStorage(backendApplications) == backendApplications

\* ------------------------------------------------------- mergeApplications
\* Map.set in insertion order: a new key is appended, an existing key keeps
\* its position and takes the new value
MapSet(m, app) ==
  IF app.id \in Ids(m)
  THEN [i \in 1..Len(m) |-> IF m[i].id = app.id THEN app ELSE m[i]]
  ELSE Append(m, app)

RECURSIVE SetAll(_, _)
SetAll(m, list) ==
  IF list = <<>> THEN m ELSE SetAll(MapSet(m, Head(list)), Tail(list))

RECURSIVE SetMissing(_, _)
SetMissing(m, list) ==
  IF list = <<>> THEN m
  ELSE SetMissing(IF Head(list).id \in Ids(m) THEN m ELSE Append(m, Head(list)),
                  Tail(list))

\* a.created_at ? new Date(a.created_at).getTime() : 0
CreatedTime(app) == app.created_at

\* stable insertion for the comparator bDate - aDate (newest first)
RECURSIVE InsertByDate(_, _)
InsertByDate(sorted, app) ==
  IF sorted = <<>> THEN <<app>>
  ELSE IF CreatedTime(Head(sorted)) >= CreatedTime(app)
       THEN <<Head(sorted)>> \o InsertByDate(Tail(sorted), app)
       ELSE <<app>> \o sorted

RECURSIVE SortByCreatedDesc(_)
SortByCreatedDesc(list) ==
  IF list = <<>> THEN <<>>
  ELSE InsertByDate(SortByCreatedDesc(SubSeq(list, 1, Len(list) - 1)),
                    list[Len(list)])

\* variant: the local records are appended without looking at their ids
mergeWithoutIdCheck(local, backend) ==
  SortByCreatedDesc(SetAll(<<>>, backend) \o local)

\* variant: the local records are entered first and so win
mergeLocalFirst(local, backend) ==
  SortByCreatedDesc(SetMissing(SetAll(<<>>, local), backend))

mergeApplications(local, backend) ==
  SortByCreatedDesc(SetMissing(SetAll(<<>>, backend), local))

\* ------------------------------------------------------------ remote side
\* a record as the backend lists it
BackendRec(i) == JobApplication(i, "a", ServerTime, ServerTime)

\* responses of getAll: lists of backend records with distinct identifiers
BackendLists ==
  {<<>>} \cup {<<BackendRec(i)>> : i \in ServerIds}
         \cup {<<BackendRec(p[1]), BackendRec(p[2])>> :
                 p \in {q \in ServerIds \X ServerIds : q[1] # q[2]}}

\* response of create: the submitted fields with a backend identifier
CreatedRec(sid, title) == JobApplication(sid, title, ServerTime, ServerTime)

\* --------------------------------------------------------------- closures
\* what the callbacks of one render read
Closure(apps, st) ==
  [applications |-> apps, pendingChanges |-> st.pendingChanges,
   isSyncing |-> st.isSyncing]

\* the first render: useState initial values, before any effect has run
MountClosure ==
  [applications |-> <<>>, pendingChanges |-> 0, isSyncing |-> FALSE]

\* syncWithBackend of the current render reads the list, the count and the flag
CurrentClosure == Closure(applications, syncStatus)

\* the mutation callbacks of the current render read the count only
MutationClosure ==
  [applications |-> <<>>, pendingChanges |-> syncStatus.pendingChanges,
   isSyncing |-> FALSE]

\* what the model remembers of the moment a sync call was made: the cache and
\* the pending count then (no callback reads this; the properties do)
Started(apps, pending) == [applications |-> apps, pendingChanges |-> pending]

\* an outstanding remote call and the continuation waiting for it
Request(kind, src, cl, id, title, started) ==
  [kind |-> kind, src |-> src, cl |-> cl, id |-> id, title |-> title,
   started |-> started]

NoReq == Request("none", "none", MountClosure, 0, "", Started(<<>>, 0))

\* the step just taken: its name, the call it belongs to, the remote response
\* it consumed and the value it returned to the caller
Step(op, req, resp, rec, ok) ==
  [op |-> op, req |-> req, resp |-> resp, rec |-> rec, ok |-> ok]

Issue(req) == inflight (+) SetToBag({req})
Settle(req) == inflight (-) SetToBag({req})
Outstanding == BagToSet(inflight)

\* ------------------------------------------------- the save effect
\* variant: the effect writes whatever isLoading is
SaveEffectUnguarded(loading, apps, item, saved) ==
  IF ~saved THEN item ELSE JSONStringify(apps)

\* the item as the save effect of one render leaves it: the effect writes
\* the list of its render unless that render saw isLoading set; saved tells
\* whether localStorage.setItem returned or threw
SaveEffect(loading, apps, item, saved) ==
  IF loading \/ ~saved THEN item ELSE JSONStringify(apps)

\* variant: a failed write puts the list back as it was
CacheWriteRollsBack(apps, saved) ==
  IF cache.isLoading
  THEN /\ applications' = apps
       /\ stored' = stored
       /\ cache' = [cache EXCEPT !.error = NullError]
  ELSE IF saved
       THEN /\ applications' = apps
            /\ stored' = JSONStringify(apps)
            /\ cache' = [cache EXCEPT !.error = NullError]
       ELSE /\ applications' = applications
            /\ stored' = stored
            /\ cache' = [cache EXCEPT !.error = SaveFailedMessage]

\* a write to the list (setApplications, setError(null)) and the save effect
\* of the render that follows
CacheWrite(apps, saved) ==
  /\ applications' = apps
  /\ stored' = SaveEffect(cache.isLoading, apps, stored, saved)
  /\ cache' = [cache EXCEPT !.error = IF cache.isLoading \/ saved
                                      THEN NullError
                                      ELSE SaveFailedMessage]

\* ------------------------------------------------------------------- Init
\* what an earlier session left in localStorage: nothing, or one record
\* created offline together with its pending change
StoredSessions ==
  {[apps |-> <<>>, pending |-> NoItem],
   [apps |-> <<JobApplication(StartTime - 1, "a", StartTime - 1, StartTime - 1)>>,
    pending |-> NumberToString(1)]}

Init ==
  \E sess \in StoredSessions, online \in BOOLEAN :
    /\ stored = JSONStringify(sess.apps)
    /\ applications = JSONParse(stored)
    /\ cache = [isLoading |-> FALSE, error |-> NullError]
    /\ ghost = [unsent |-> 0]
    /\ ui = [applications |-> JSONParse(stored), isLoading |-> FALSE]
    /\ lsPending = sess.pending
    /\ lsLastSync = NoItem
    /\ syncStatus = [isOnline |-> online,
                     lastSync |-> IF lsLastSync = NoItem THEN NullDate
                                  ELSE ParseDate(lsLastSync),
                     pendingChanges |-> IF sess.pending = NoItem THEN 0
                                        ELSE ParseInt(sess.pending),
                     isSyncing |-> FALSE,
                     error |-> NullError]
    /\ navOnline = online
    /\ now = StartTime
    /\ inflight = EmptyBag
    /\ mounted = FALSE
    /\ events = 0
    /\ last = Step("init", NoReq, <<>>, NoRec, FALSE)

\* ------------------------------------------------------------ useSyncManager
\* newCount of updatePendingChanges, read from the closure of its render
updatePendingChanges(cl, change) == Max(0, cl.pendingChanges + change)

\* the guard of syncWithBackend, read from the closure of its render
SyncRefused(cl, online) == ~online \/ cl.isSyncing

\* variant: a run sends a create for the pending changes instead of fetching
syncWithBackendResends(cl, src, online, st) ==
  LET req == Request(IF cl.pendingChanges > 0 \/ syncStatus.pendingChanges > 0
                     THEN "create" ELSE "getAll",
                     src, cl, 0, "a",
                     Started(applications, syncStatus.pendingChanges))
  IN IF SyncRefused(cl, online)
     THEN /\ syncStatus' = st
          /\ inflight' = inflight
          /\ last' = Step("syncRefused", req, <<>>, NoRec, FALSE)
     ELSE /\ BagCardinality(inflight) < MaxInflight
          /\ syncStatus' = [st EXCEPT !.isSyncing = TRUE, !.error = NullError]
          /\ inflight' = Issue(req)
          /\ last' = Step("syncStart", req, <<>>, NoRec, FALSE)

\* variant: the start of a run leaves the error as it is
syncWithBackendKeepsError(cl, src, online, st) ==
  LET req == Request("getAll", src, cl, 0, "",
                     Started(applications, syncStatus.pendingChanges))
  IN IF SyncRefused(cl, online)
     THEN /\ syncStatus' = st
          /\ inflight' = inflight
          /\ last' = Step("syncRefused", req, <<>>, NoRec, FALSE)
     ELSE /\ BagCardinality(inflight) < MaxInflight
          /\ syncStatus' = [st EXCEPT !.isSyncing = TRUE]
          /\ inflight' = Issue(req)
          /\ last' = Step("syncStart", req, <<>>, NoRec, FALSE)

\* syncWithBackend up to its await; st is syncStatus as the caller left it
syncWithBackend(cl, src, online, st) ==
  LET req == Request("getAll", src, cl, 0, "",
                     Started(applications, syncStatus.pendingChanges))
  IN IF SyncRefused(cl, online)
     THEN /\ syncStatus' = st
          /\ inflight' = inflight
          /\ last' = Step("syncRefused", req, <<>>, NoRec, FALSE)
     ELSE /\ BagCardinality(inflight) < MaxInflight
          /\ syncStatus' = [st EXCEPT !.isSyncing = TRUE, !.error = NullError]
          /\ inflight' = Issue(req)
          /\ last' = Step("syncStart", req, <<>>, NoRec, FALSE)

\* history: one more change applied to the cache while offline; no handler
\* sends such a change later (syncWithBackend issues getAll only), so the
\* count never falls
AppliedOffline == [ghost EXCEPT !.unsent = @ + 1]

\* one more call of the hook's surface, connectivity event or clock tick
Called == events < MaxEvents /\ events' = events + 1

\* the initial sync effect of the application component (first render)
InitialSync ==
  /\ ~mounted
  /\ mounted' = TRUE
  /\ syncWithBackend(MountClosure, "mount", navOnline, syncStatus)
  /\ UNCHANGED <<applications, stored, cache, lsPending, lsLastSync, navOnline, now,
                 events,
                 ghost, ui>>

\* variant: the listener calls syncWithBackend of the current render
handleOnlineCurrentRender ==
  /\ mounted
  /\ Called
  /\ ~navOnline
  /\ navOnline' = TRUE
  /\ syncWithBackend(CurrentClosure, "online", TRUE,
                     [syncStatus EXCEPT !.isOnline = TRUE])
  /\ UNCHANGED <<applications, stored, cache, lsPending, lsLastSync, now, mounted,
                 ghost, ui>>

\* the 'online' listener registered by the first render
handleOnline ==
  /\ mounted
  /\ Called
  /\ ~navOnline
  /\ navOnline' = TRUE
  /\ syncWithBackend(MountClosure, "online", TRUE,
                     [syncStatus EXCEPT !.isOnline = TRUE])
  /\ UNCHANGED <<applications, stored, cache, lsPending, lsLastSync, now, mounted,
                 ghost, ui>>

handleOffline ==
  /\ mounted
  /\ Called
  /\ navOnline
  /\ navOnline' = FALSE
  /\ syncStatus' = [syncStatus EXCEPT !.isOnline = FALSE]
  /\ last' = Step("offline", NoReq, <<>>, NoRec, FALSE)
  /\ UNCHANGED <<applications, stored, cache, lsPending, lsLastSync, now, inflight,
                 mounted,
                 ghost, ui>>

\* forceSync: syncWithBackend of the current render
forceSync ==
  /\ mounted
  /\ Called
  /\ syncWithBackend(CurrentClosure, "force", navOnline, syncStatus)
  /\ UNCHANGED <<applications, stored, cache, lsPending, lsLastSync, navOnline, now,
                 mounted,
                 ghost, ui>>

\* variant: the cleared count is not written to localStorage
GetAllResolvedNoPersist(req, backend) ==
  LET merged == mergeApplications(req.cl.applications, backend)
      newCount == updatePendingChanges(req.cl, 0 - req.cl.pendingChanges)
  IN /\ req.kind = "getAll"
     /\ CacheWrite(syncLocalStorage(merged), TRUE)
     /\ lsLastSync' = ToISOString(now)
     /\ lsPending' = lsPending
     /\ syncStatus' = [syncStatus EXCEPT !.lastSync = now,
                                         !.pendingChanges = newCount,
                                         !.isSyncing = FALSE,
                                         !.error = NullError]
     /\ inflight' = Settle(req)
     /\ last' = Step("syncOk", req, backend, NoRec, TRUE)
     /\ UNCHANGED <<navOnline, now, mounted, events, ghost, ui>>

\* getAll resolved: merge, replace the cache, stamp lastSync, clear the count
GetAllResolved(req, backend) ==
  LET merged == mergeApplications(req.cl.applications, backend)
      newCount == updatePendingChanges(req.cl, 0 - req.cl.pendingChanges)
  IN /\ req.kind = "getAll"
     /\ CacheWrite(syncLocalStorage(merged), TRUE)
     /\ lsLastSync' = ToISOString(now)
     /\ lsPending' = NumberToString(newCount)
     /\ syncStatus' = [syncStatus EXCEPT !.lastSync = now,
                                         !.pendingChanges = newCount,
                                         !.isSyncing = FALSE,
                                         !.error = NullError]
     /\ inflight' = Settle(req)
     /\ last' = Step("syncOk", req, backend, NoRec, TRUE)
     /\ UNCHANGED <<navOnline, now, mounted, events, ghost, ui>>

\* variant: the catch block clears the count as the success path does
GetAllRejectedClearsPending(req) ==
     /\ req.kind = "getAll"
     /\ syncStatus' = [syncStatus EXCEPT !.isSyncing = FALSE,
                                         !.pendingChanges = 0,
                                         !.error = SyncFailedMessage]
     /\ inflight' = Settle(req)
     /\ last' = Step("syncFail", req, <<>>, NoRec, FALSE)
     /\ UNCHANGED <<applications, stored, cache, lsPending, lsLastSync, navOnline,
                    now, mounted, events, ghost, ui>>

\* getAll rejected: the catch block
GetAllRejected(req) ==
     /\ req.kind = "getAll"
     /\ syncStatus' = [syncStatus EXCEPT !.isSyncing = FALSE,
                                         !.error = SyncFailedMessage]
     /\ inflight' = Settle(req)
     /\ last' = Step("syncFail", req, <<>>, NoRec, FALSE)
     /\ UNCHANGED <<applications, stored, cache, lsPending, lsLastSync, navOnline,
                    now, mounted, events,
                 ghost, ui>>

\* the record synthesized by the offline branch and by the catch block
TempApplication(title, t) == JobApplication(t, title, t, t)

\* variant: the new count is kept in memory only
LocalFallbackMemoryOnly(cl, apps) ==
  LET newCount == updatePendingChanges(cl, 1)
  IN /\ CacheWrite(apps, TRUE)
     /\ lsPending' = lsPending
     /\ syncStatus' = [syncStatus EXCEPT !.pendingChanges = newCount]
     /\ UNCHANGED lsLastSync

\* the local fallback shared by the offline branch and the catch block of
\* the three mutations: the pending count comes from the caller's closure
LocalFallback(cl, apps) ==
  LET newCount == updatePendingChanges(cl, 1)
  IN /\ CacheWrite(apps, TRUE)
     /\ lsPending' = NumberToString(newCount)
     /\ syncStatus' = [syncStatus EXCEPT !.pendingChanges = newCount]
     /\ UNCHANGED lsLastSync

\* variant: the success branch does not call updateLastSync
RemoteConfirmedNoStamp(apps) ==
  /\ CacheWrite(apps, TRUE)
  /\ UNCHANGED <<lsLastSync, syncStatus, lsPending>>

\* the success branch shared by the three mutations: cache, then lastSync
RemoteConfirmed(apps) ==
  /\ CacheWrite(apps, TRUE)
  /\ lsLastSync' = ToISOString(now)
  /\ syncStatus' = [syncStatus EXCEPT !.lastSync = now]
  /\ UNCHANGED lsPending

\* a mutation called from the current render
UiRequest(kind, id, title) ==
  Request(kind, "ui", MutationClosure, id, title, Started(<<>>, 0))

\* variant: the record is dropped from the cache before the remote call
IssueRequestOptimistic(kind, op, id, title) ==
  /\ BagCardinality(inflight) < MaxInflight
  /\ inflight' = Issue(UiRequest(kind, id, title))
  /\ last' = Step(op, UiRequest(kind, id, title), <<>>, NoRec, FALSE)
  /\ CacheWrite(deleteApplication(applications, id), TRUE)
  /\ UNCHANGED <<syncStatus, lsPending, lsLastSync>>

\* a mutation of the current render reaching its await
IssueRequest(kind, op, id, title) ==
  /\ BagCardinality(inflight) < MaxInflight
  /\ inflight' = Issue(UiRequest(kind, id, title))
  /\ last' = Step(op, UiRequest(kind, id, title), <<>>, NoRec, FALSE)
  /\ UNCHANGED <<applications, stored, cache, syncStatus, lsPending, lsLastSync>>

CanMutate == mounted /\ Called

\* addApplicationWithSync up to its await, or its whole offline branch
addApplicationWithSync(title) ==
  /\ CanMutate
  /\ IF navOnline
     THEN IssueRequest("create", "addStart", 0, title)
     ELSE LET tempApplication == TempApplication(title, now)
          IN /\ LocalFallback(MutationClosure,
                              addApplication(applications, tempApplication))
             /\ inflight' = inflight
             /\ last' = Step("addOffline", UiRequest("create", 0, title), <<>>,
                             tempApplication, TRUE)
  /\ ghost' = IF navOnline THEN ghost ELSE AppliedOffline
  /\ UNCHANGED <<navOnline, now, mounted, ui>>

\* variant: the success branch inserts and returns a synthesized record
CreateResolvedSynthesized(req, sid) ==
  LET tempApplication == TempApplication(req.title, now)
  IN /\ req.kind = "create"
     /\ RemoteConfirmed(addApplication(applications, tempApplication))
     /\ inflight' = Settle(req)
     /\ last' = Step("addOk", req, <<CreatedRec(sid, req.title)>>,
                     tempApplication, TRUE)
     /\ UNCHANGED <<navOnline, now, mounted, events, ghost, ui>>

CreateResolved(req, sid) ==
  LET newApplication == CreatedRec(sid, req.title)
  IN /\ req.kind = "create"
     /\ RemoteConfirmed(addApplication(applications, newApplication))
     /\ inflight' = Settle(req)
     /\ last' = Step("addOk", req, <<newApplication>>, newApplication, TRUE)
     /\ UNCHANGED <<navOnline, now, mounted, events, ghost, ui>>

CreateRejected(req) ==
  LET tempApplication == TempApplication(req.title, now)
  IN /\ req.kind = "create"
     /\ LocalFallback(req.cl, addApplication(applications, tempApplication))
     /\ inflight' = Settle(req)
     /\ last' = Step("addFail", req, <<>>, tempApplication, TRUE)
     /\ UNCHANGED <<navOnline, now, mounted, events, ghost, ui>>

\* updateApplicationWithSync and deleteApplicationWithSync return true from
\* the success branch and from the offline branch, false from the catch block
updateApplicationWithSync(id, title) ==
  /\ CanMutate
  /\ IF navOnline
     THEN IssueRequest("update", "updStart", id, title)
     ELSE /\ LocalFallback(MutationClosure,
                           updateApplication(applications, id,
                                             [job_title |-> title], now))
          /\ inflight' = inflight
          /\ last' = Step("updOffline", UiRequest("update", id, title), <<>>,
                          NoRec, TRUE)
  /\ ghost' = IF navOnline THEN ghost ELSE AppliedOffline
  /\ UNCHANGED <<navOnline, now, mounted, ui>>

UpdateResolved(req) ==
     /\ req.kind = "update"
     /\ RemoteConfirmed(updateApplication(applications, req.id,
                                          [job_title |-> req.title], now))
     /\ inflight' = Settle(req)
     /\ last' = Step("updOk", req, <<>>, NoRec, TRUE)
     /\ UNCHANGED <<navOnline, now, mounted, events, ghost, ui>>

\* variant: the catch block returns true
UpdateRejectedReturnsTrue(req) ==
     /\ req.kind = "update"
     /\ LocalFallback(req.cl, updateApplication(applications, req.id,
                                                [job_title |-> req.title], now))
     /\ inflight' = Settle(req)
     /\ last' = Step("updFail", req, <<>>, NoRec, TRUE)
     /\ UNCHANGED <<navOnline, now, mounted, events, ghost, ui>>

UpdateRejected(req) ==
     /\ req.kind = "update"
     /\ LocalFallback(req.cl, updateApplication(applications, req.id,
                                                [job_title |-> req.title], now))
     /\ inflight' = Settle(req)
     /\ last' = Step("updFail", req, <<>>, NoRec, FALSE)
     /\ UNCHANGED <<navOnline, now, mounted, events, ghost, ui>>

deleteApplicationWithSync(id) ==
  /\ CanMutate
  /\ IF navOnline
     THEN IssueRequest("delete", "delStart", id, "")
     ELSE /\ LocalFallback(MutationClosure, deleteApplication(applications, id))
          /\ inflight' = inflight
          /\ last' = Step("delOffline", UiRequest("delete", id, ""), <<>>,
                          NoRec, TRUE)
  /\ ghost' = IF navOnline THEN ghost ELSE AppliedOffline
  /\ UNCHANGED <<navOnline, now, mounted, ui>>

DeleteResolved(req) ==
     /\ req.kind = "delete"
     /\ RemoteConfirmed(deleteApplication(applications, req.id))
     /\ inflight' = Settle(req)
     /\ last' = Step("delOk", req, <<>>, NoRec, TRUE)
     /\ UNCHANGED <<navOnline, now, mounted, events, ghost, ui>>

DeleteRejected(req) ==
     /\ req.kind = "delete"
     /\ LocalFallback(req.cl, deleteApplication(applications, req.id))
     /\ inflight' = Settle(req)
     /\ last' = Step("delFail", req, <<>>, NoRec, FALSE)
     /\ UNCHANGED <<navOnline, now, mounted, events, ghost, ui>>

\* the clock advances between events
Tick ==
  /\ Called
  /\ now' = now + 1
  /\ last' = Step("tick", NoReq, <<>>, NoRec, FALSE)
  /\ UNCHANGED <<applications, stored, cache, syncStatus, lsPending, lsLastSync,
                 navOnline, inflight, mounted,
                 ghost, ui>>

Next ==
  \/ InitialSync
  \/ handleOnline
  \/ handleOffline
  \/ forceSync
  \/ \E req \in Outstanding, backend \in BackendLists :
       GetAllResolved(req, backend)
  \/ \E req \in Outstanding : GetAllRejected(req)
  \/ \E title \in Titles : addApplicationWithSync(title)
  \/ \E req \in Outstanding, sid \in ServerIds : CreateResolved(req, sid)
  \/ \E req \in Outstanding : CreateRejected(req)
  \/ \E id \in Ids(applications), title \in UpdateTitles :
       updateApplicationWithSync(id, title)
  \/ \E req \in Outstanding : UpdateResolved(req)
  \/ \E req \in Outstanding : UpdateRejected(req)
  \/ \E id \in Ids(applications) : deleteApplicationWithSync(id)
  \/ \E req \in Outstanding : DeleteResolved(req)
  \/ \E req \in Outstanding : DeleteRejected(req)
  \/ Tick

Spec == Init /\ [][Next]_vars

TypeOK ==
  /\ syncStatus.pendingChanges \in 0..(MaxEvents + 1)
  /\ BagCardinality(inflight) <= MaxInflight
  /\ now \in StartTime..MaxTime

\* ------------------------------------------- useLocalStorage on its own
\* The hook mounted alone over an item left by an earlier session, then
\* called directly; setItem may throw on any write.
CacheIds == 1..(NumServerIds + 1)

\* a record as an earlier session cached it
CacheRec(id) == JobApplication(id, "c", id, id)

CacheLists ==
  UNION {[1..n -> {CacheRec(id) : id \in CacheIds}] : n \in 0..MaxCacheLen}

CacheItems ==
  {NoCacheItem, CorruptItem} \cup {JSONStringify(list) : list \in CacheLists}

\* lists of backend records with distinct identifiers
CacheBackendLists ==
  {<<>>} \cup {<<BackendRec(i)>> : i \in CacheIds}
         \cup {<<BackendRec(p[1]), BackendRec(p[2])>> :
                 p \in {q \in CacheIds \X CacheIds : q[1] # q[2]}}

\* payloads of updateApplication for a given id: four partial ones (one
\* field, another field, updated_at itself, none) and a complete record
\* carrying the id
CachePayloads(id) ==
  << [job_title |-> "u"],
     [created_at |-> ServerTime],
     [updated_at |-> ServerTime],
     <<>>,
     JobApplication(id, "u", ServerTime, ServerTime) >>

InitCache ==
  /\ stored \in CacheItems
  /\ applications = <<>>
  /\ cache = [isLoading |-> TRUE, error |-> NullError]
  /\ syncStatus = [isOnline |-> FALSE, lastSync |-> NullDate,
                   pendingChanges |-> 0, isSyncing |-> FALSE,
                   error |-> NullError]
  /\ lsPending = NoItem
  /\ lsLastSync = NoItem
  /\ navOnline = FALSE
  /\ now = StartTime
  /\ inflight = EmptyBag
  /\ mounted = FALSE
  /\ events = 0
  /\ ghost = [unsent |-> 0]
  /\ ui = [applications |-> <<>>, isLoading |-> TRUE]
  /\ last = Step("init", NoReq, <<>>, NoRec, FALSE)

\* the step just taken on the cache: the list before it, the argument and
\* whether the write to localStorage that followed went through
CacheStep(op, id, resp, rec, saved) ==
  Step(op, Request("cache", "cache", MountClosure, id, "",
                   Started(applications, 0)), resp, rec, saved)

\* variant: without the finally block a failed parse leaves isLoading set
LoadEffectNoFinally(saved) ==
  LET readable == stored.present /\ stored.wellFormed
      failed == stored.present /\ ~stored.wellFormed
      loaded == IF readable THEN JSONParse(stored) ELSE applications
      firstRender == SaveEffect(cache.isLoading, applications, stored, saved)
  IN /\ cache.isLoading
     /\ applications' = loaded
     /\ IF failed
        THEN /\ stored' = firstRender
             /\ cache' = [isLoading |-> TRUE, error |-> LoadFailedMessage]
        ELSE /\ stored' = SaveEffect(FALSE, loaded, firstRender, saved)
             /\ cache' = [isLoading |-> FALSE,
                          error |-> IF saved THEN cache.error
                                    ELSE SaveFailedMessage]
     /\ last' = CacheStep("load", 0, <<stored, firstRender>>, NoRec, saved)
     /\ UNCHANGED <<events, syncVars>>

\* the effects of the first render, which are the load effect and a save
\* effect that sees isLoading set, and then, isLoading being false, the save
\* effect of the render that follows; the step records the item read and the
\* item as the first render left it
LoadEffect(saved) ==
  LET readable == stored.present /\ stored.wellFormed
      failed == stored.present /\ ~stored.wellFormed
      loaded == IF readable THEN JSONParse(stored) ELSE applications
      loadError == IF failed THEN LoadFailedMessage ELSE cache.error
      firstRender == SaveEffect(cache.isLoading, applications, stored, saved)
  IN /\ cache.isLoading
     /\ applications' = loaded
     /\ stored' = SaveEffect(FALSE, loaded, firstRender, saved)
     /\ cache' = [isLoading |-> FALSE,
                  error |-> IF saved THEN loadError ELSE SaveFailedMessage]
     /\ last' = CacheStep("load", 0, <<stored, firstRender>>, NoRec, saved)
     /\ UNCHANGED <<events, syncVars>>

\* a call made on the mounted hook
CacheCalled ==
  /\ ~cache.isLoading
  /\ events < MaxCacheOps
  /\ events' = events + 1

CacheAdd(app, saved) ==
  /\ CacheCalled
  /\ Len(applications) < MaxCacheLen
  /\ CacheWrite(addApplication(applications, app), saved)
  /\ last' = CacheStep("cacheAdd", app.id, <<>>, app, saved)
  /\ UNCHANGED syncVars

CacheUpdate(id, updates, saved) ==
  /\ CacheCalled
  /\ CacheWrite(updateApplication(applications, id, updates, now), saved)
  /\ last' = CacheStep("cacheUpdate", id, <<updates>>, NoRec, saved)
  /\ UNCHANGED syncVars

CacheDelete(id, saved) ==
  /\ CacheCalled
  /\ CacheWrite(deleteApplication(applications, id), saved)
  /\ last' = CacheStep("cacheDelete", id, <<>>, NoRec, saved)
  /\ UNCHANGED syncVars

CacheClear(saved) ==
  /\ CacheCalled
  /\ CacheWrite(clearAllApplications, saved)
  /\ last' = CacheStep("cacheClear", 0, <<>>, NoRec, saved)
  /\ UNCHANGED syncVars

\* the merge of a sync run handed to the cache: mergeApplications over the
\* list held, then syncLocalStorage
CacheMerge(backend, saved) ==
  /\ CacheCalled
  /\ CacheWrite(syncLocalStorage(mergeApplications(applications, backend)),
                saved)
  /\ last' = CacheStep("cacheMerge", 0, backend, NoRec, saved)
  /\ UNCHANGED syncVars

NextCache ==
  \/ \E saved \in BOOLEAN : LoadEffect(saved)
  \/ \E id \in CacheIds, saved \in BOOLEAN : CacheAdd(CacheRec(id), saved)
  \/ \E id \in CacheIds, saved \in BOOLEAN :
       \E k \in 1..Len(CachePayloads(id)) :
         CacheUpdate(id, CachePayloads(id)[k], saved)
  \/ \E id \in CacheIds, saved \in BOOLEAN : CacheDelete(id, saved)
  \/ \E saved \in BOOLEAN : CacheClear(saved)
  \/ \E backend \in CacheBackendLists, saved \in BOOLEAN :
       CacheMerge(backend, saved)

SpecCache == InitCache /\ [][NextCache]_vars

\* React runs the effects of the first render once it has committed
FairSpecCache ==
  SpecCache /\ WF_vars(\E saved \in BOOLEAN : LoadEffect(saved))

\* ============================================================ properties
Pending == syncStatus.pendingChanges
SyncsInFlight == {r \in Outstanding : r.kind = "getAll"}
Occurrences(list, id) == Cardinality({i \in 1..Len(list) : list[i].id = id})
Holds(list, app) == \E i \in 1..Len(list) : list[i] = app

C2_OnlineCreateSuccess ==
  [][last'.op = "addOk" =>
       /\ last'.resp = <<last'.rec>>
       /\ last'.rec.id \in ServerIds
       /\ last'.rec # TempApplication(last'.req.title, now)
       /\ applications' = Append(applications, last'.resp[1])
       /\ syncStatus'.pendingChanges = Pending
       /\ lsPending' = lsPending
       /\ syncStatus'.lastSync = now
       /\ ParseDate(lsLastSync') = now]_vars

C2_Witness ==
  /\ last.op = "addOk"
  /\ Len(applications) > 1
  /\ applications[Len(applications)] = last.resp[1]
  /\ Pending > 0
  /\ syncStatus.lastSync = now

\* C3: when an online create fails remotely the call returns a record with a
\* temporary id, appended to the cache exactly once, and pendingChanges
\* rises by exactly 1, as in an offline create.
C3_OnlineCreateFailure ==
  [][last'.op = "addFail" =>
       /\ last'.rec = TempApplication(last'.req.title, now)
       /\ applications' = Append(applications, last'.rec)
       /\ syncStatus'.pendingChanges = Pending + 1
       /\ ParseInt(lsPending') = Pending + 1]_vars

UpdateReturned == last'.op \in {"updOffline", "updOk", "updFail"}

\* C4 as stated: updateApplicationWithSync returns true only when the remote
\* update succeeded and false whenever the update reached the cache only.
C4_ReturnDistinguishesLocalOnly ==
  [][UpdateReturned => (last'.ok <=> last'.op = "updOk")]_vars

\* C4 amended: updateApplicationWithSync returns false exactly when the
\* remote update was attempted and failed; it returns true when the remote
\* update succeeded and also when the browser was offline.
C4_ReturnFalseOnlyOnRemoteFailure ==
  [][UpdateReturned => (~last'.ok <=> last'.op = "updFail")]_vars

C4_Witness ==
  /\ last.op = "updOffline"
  /\ last.ok
  /\ \E i \in 1..Len(applications) :
       applications[i].id = last.req.id /\ applications[i].job_title = last.req.title
  /\ Pending > 0

\* C5: a delete of an id held by the cache leaves no record with that id and
\* every other record as it was; on remote success lastSync is stamped and
\* pendingChanges keeps its value, on every other path pendingChanges rises
\* by 1 and lastSync keeps its value.
C5_DeleteAllPaths ==
  [][(last'.op \in {"delOffline", "delOk", "delFail"}
        /\ last'.req.id \in Ids(applications)) =>
       /\ last'.req.id \notin Ids(applications')
       /\ applications' = SelectSeq(applications,
                                    LAMBDA app : app.id # last'.req.id)
       /\ IF last'.op = "delOk"
          THEN /\ syncStatus'.lastSync = now
               /\ syncStatus'.pendingChanges = Pending
          ELSE /\ syncStatus'.pendingChanges = Pending + 1
               /\ syncStatus'.lastSync = syncStatus.lastSync]_vars

\* C6: when a sync run completes successfully pendingChanges is 0 in memory
\* and in storage, lastSync is stamped, isSyncing is false and error is
\* null, whatever the count was when the run started.
C6_SyncClearsPending ==
  [][last'.op = "syncOk" =>
       /\ syncStatus'.pendingChanges = 0
       /\ lsPending' # NoItem
       /\ ParseInt(lsPending') = 0
       /\ syncStatus'.lastSync = now
       /\ lsLastSync' # NoItem
       /\ ParseDate(lsLastSync') = now
       /\ ~syncStatus'.isSyncing
       /\ syncStatus'.error = NullError]_vars

C6_Witness ==
  /\ last.op = "syncOk"
  /\ last.req.src = "force"
  /\ last.req.started.pendingChanges > 1
  /\ Pending = 0

\* C7: after a successful sync every id of the fetched list occurs exactly
\* once in the cache with the remote record, and no id occurs twice in the
\* cache even if it did before the sync.
C7_RemoteWinsNoDuplicates ==
  [][last'.op = "syncOk" =>
       /\ \A i \in 1..Len(last'.resp) :
            /\ Occurrences(applications', last'.resp[i].id) = 1
            /\ Holds(applications', last'.resp[i])
       /\ \A id \in Ids(applications') : Occurrences(applications', id) = 1]_vars

C7_Witness ==
  /\ last.op = "syncOk"
  /\ \E i \in 1..Len(last.resp) :
       /\ Occurrences(last.req.cl.applications, last.resp[i].id) > 1
       /\ ~Holds(last.req.cl.applications, last.resp[i])
  /\ \A id \in Ids(applications) : Occurrences(applications, id) = 1

\* C8: after a successful sync, whatever triggered it, every record that was
\* in the cache when the run started and whose id is not in the fetched list
\* is still in the cache, unchanged.
C8_LocalOnlySurvive ==
  [][last'.op = "syncOk" =>
       \A i \in 1..Len(last'.req.started.applications) :
          LET app == last'.req.started.applications[i]
          IN app.id \notin Ids(last'.resp) => Holds(applications', app)]_vars

\* C9: every 'online' event starts a sync run, and when the fetch of that run
\* succeeds pendingChanges is 0 afterwards, whatever it was.
C9_OnlineEventSyncs ==
  [][/\ (~navOnline /\ navOnline') =>
          /\ last'.op = "syncStart"
          /\ last'.req.src = "online"
          /\ inflight' = inflight (+) SetToBag({last'.req})
          /\ last'.req.kind = "getAll"
     /\ (last'.op = "syncOk" /\ last'.req.src = "online") =>
          /\ syncStatus'.pendingChanges = 0
          /\ ParseInt(lsPending') = 0]_vars

C9_Witness ==
  /\ last.op = "syncOk"
  /\ last.req.src = "online"
  /\ last.req.started.pendingChanges > 1
  /\ Pending = 0

\* C10: in every reachable state at most one sync run has its getAll in
\* flight; a sync call made while a run is in flight issues no request.
C10_SingleSyncInFlight ==
  BagCardinality([r \in SyncsInFlight |-> CopiesIn(r, inflight)]) <= 1

\* what a sync run must leave alone when it fails
SyncFrame ==
  /\ applications' = applications
  /\ stored' = stored
  /\ syncStatus'.pendingChanges = Pending
  /\ lsPending' = lsPending
  /\ syncStatus'.lastSync = syncStatus.lastSync
  /\ lsLastSync' = lsLastSync

\* C11: when the getAll of a sync run fails, error is set to a non-null
\* message and isSyncing is false; neither the start of a run nor its failure
\* changes the cache list, pendingChanges (in memory and persisted) or
\* lastSync, so a run that fails with nothing else completing meanwhile
\* leaves them exactly as they were when it started.
C11_FailedSyncChangesNothing ==
  [][/\ last'.op = "syncStart" => SyncFrame
     /\ last'.op = "syncFail" =>
          /\ syncStatus'.error # NullError
          /\ ~syncStatus'.isSyncing
          /\ SyncFrame
     /\ (last'.op = "syncFail" /\ last.op = "syncStart" /\ last.req = last'.req) =>
          /\ applications' = last'.req.started.applications
          /\ syncStatus'.pendingChanges = last'.req.started.pendingChanges]_vars

C11_Witness ==
  /\ last.op = "syncFail"
  /\ syncStatus.error = SyncFailedMessage
  /\ ~syncStatus.isSyncing
  /\ last.req.started.pendingChanges > 1
  /\ Pending = last.req.started.pendingChanges
  /\ Len(applications) > 1
  /\ applications = last.req.started.applications

LocalOnlyOps ==
  {"addOffline", "addFail", "updOffline", "updFail", "delOffline", "delFail"}

\* C12: pendingChanges counts exactly the mutations since the last successful
\* sync that were made offline or whose remote call failed: each of them
\* raises the count by 1, a successful sync sets it to 0 and no other step
\* changes it, also when remote requests overlap in time.
C12_PendingCountsExactly ==
  [][/\ last'.op \in LocalOnlyOps => syncStatus'.pendingChanges = Pending + 1
     /\ last'.op = "syncOk" => syncStatus'.pendingChanges = 0
     /\ last'.op \notin LocalOnlyOps \cup {"syncOk"} =>
          syncStatus'.pendingChanges = Pending]_vars

\* C13: in every reachable state no two records of the cache share an id.
C13_IdsUnique ==
  \A id \in Ids(applications) : Occurrences(applications, id) = 1

\* C14: mergeApplications(L, R) holds exactly the ids of R and of L, each
\* once; an id of R carries R's record, an id of L alone carries L's record.
C14_MergeIsUnionRemoteWins ==
  [][last'.op = "cacheMerge" =>
       /\ Ids(applications') = Ids(last'.resp) \cup Ids(applications)
       /\ \A id \in Ids(applications') : Occurrences(applications', id) = 1
       /\ \A i \in 1..Len(applications') :
            IF applications'[i].id \in Ids(last'.resp)
            THEN Holds(last'.resp, applications'[i])
            ELSE Holds(applications, applications'[i])]_vars

\* a merge of a local list holding an id twice, an id the remote list holds
\* with other contents and an id the remote list does not hold
C14_Witness ==
  /\ last.op = "cacheMerge"
  /\ last.ok
  /\ \E i \in 1..Len(last.resp) :
       /\ last.resp[i].id \in Ids(last.req.started.applications)
       /\ ~Holds(last.req.started.applications, last.resp[i])
       /\ Holds(applications, last.resp[i])
  /\ \E i \in 1..Len(last.req.started.applications) :
       /\ last.req.started.applications[i].id \notin Ids(last.resp)
       /\ Holds(applications, last.req.started.applications[i])
  /\ Len(applications) > 1

PartialPayload(updates) == "id" \notin DOMAIN updates

C16_MissingIdNoOp ==
  [][/\ (/\ last'.op \in {"cacheUpdate", "cacheDelete"}
         /\ last'.req.id \notin Ids(applications)) =>
          applications' = applications
     /\ (/\ last.op = "cacheDelete"
         /\ last'.op = "cacheDelete"
         /\ last'.req.id = last.req.id) =>
          applications' = applications]_vars

C16_Witness ==
  /\ last.op = "cacheDelete"
  /\ Len(applications) > 0
  /\ last.req.id \notin Ids(last.req.started.applications)
  /\ applications = last.req.started.applications
  /\ events = 2

C18_LoadNeverBlocks ==
  /\ [][last'.op = "load" =>
          /\ ~cache'.isLoading
          /\ ~stored.present =>
               /\ applications' = <<>>
               /\ cache'.error # LoadFailedMessage
               /\ last'.ok => cache'.error = NullError
          /\ (stored.present /\ ~stored.wellFormed) =>
               /\ applications' = <<>>
               /\ cache'.error # NullError]_vars
  /\ <>(~cache.isLoading)

C18_Witness ==
  /\ last.op = "load"
  /\ last.ok
  /\ last.resp[1] = CorruptItem
  /\ applications = <<>>
  /\ cache.error = LoadFailedMessage
  /\ ~cache.isLoading

\* the list a cache mutation must leave in memory
Mutated ==
  CASE last'.op = "cacheAdd" -> Append(applications, last'.rec)
    [] last'.op = "cacheDelete" ->
         SelectSeq(applications, LAMBDA app : app.id # last'.req.id)
    [] OTHER -> applications'

\* C19: after an add, update or delete whose write to localStorage failed
\* the list in memory still reflects the mutation, the stored item is as it
\* was, an error is set, and further calls of the hook remain possible.
C19_FailedSaveKeepsMutation ==
  /\ [][(last'.op \in {"cacheAdd", "cacheUpdate", "cacheDelete"} /\ ~last'.ok) =>
          /\ applications' = Mutated
          /\ last'.op = "cacheUpdate" =>
               \A i \in 1..Len(applications') :
                  (applications[i].id = last'.req.id
                     /\ "job_title" \in DOMAIN last'.resp[1]) =>
                    applications'[i].job_title = last'.resp[1].job_title
          /\ stored' = stored
          /\ cache'.error # NullError]_vars
  /\ []((/\ last.op \in {"cacheAdd", "cacheUpdate", "cacheDelete"}
          /\ ~last.ok
          /\ events < MaxCacheOps) =>
          /\ ENABLED (\E id \in CacheIds : CacheDelete(id, TRUE))
          /\ ENABLED (\E id \in CacheIds :
                        CacheUpdate(id, CachePayloads(id)[1], TRUE))
          /\ ENABLED CacheClear(TRUE))

C19_Witness ==
  /\ last.op = "cacheAdd"
  /\ ~last.ok
  /\ cache.error = SaveFailedMessage
  /\ applications = Append(last.req.started.applications, last.rec)
  /\ Len(JSONParse(stored)) < Len(applications)
  /\ events < MaxCacheOps

\* C20: every change applied to the cache while offline is sent to the
\* backend after connectivity returns: once the sync run started by an
\* 'online' event has completed successfully and no remote call is
\* outstanding, no change made offline is still unsent.
C20_OfflineChangesSent ==
  (/\ last.op = "syncOk"
   /\ last.req.src = "online"
   /\ navOnline
   /\ inflight = EmptyBag) => ghost.unsent = 0

\* C21: a mutation applied to the cache while a sync run has its fetch in
\* flight is not lost when the run completes successfully: every record the
\* cache holds then whose id the fetched list does not hold is still in the
\* cache, and a record deleted since the run started whose id the fetched
\* list does not hold stays absent.  Stated for runs started by forceSync,
\* whose closure holds the cache of the moment they started.
C21_MutationSurvivesSync ==
  [][(last'.op = "syncOk" /\ last'.req.src = "force") =>
       /\ \A i \in 1..Len(applications) :
            applications[i].id \notin Ids(last'.resp) =>
              Holds(applications', applications[i])
       /\ \A id \in Ids(last'.req.started.applications) :
            (id \notin Ids(applications) /\ id \notin Ids(last'.resp)) =>
              id \notin Ids(applications')]_vars

StartOps == {"addStart", "updStart", "delStart"}
OfflineOps == {"addOffline", "updOffline", "delOffline"}
RemoteOkOps == {"addOk", "updOk", "delOk"}
RemoteFailOps == {"addFail", "updFail", "delFail"}

\* what a completed mutation must have made of the list
Reflects(before, after, step) ==
  CASE step.op \in {"addOffline", "addOk", "addFail"} ->
         after = Append(before, step.rec)
    [] step.op \in {"delOffline", "delOk", "delFail"} ->
         after = SelectSeq(before, LAMBDA app : app.id # step.req.id)
    [] OTHER ->
         /\ Len(after) = Len(before)
         /\ \A i \in 1..Len(before) :
              IF before[i].id = step.req.id
              THEN after[i].job_title = step.req.title
              ELSE after[i] = before[i]

\* C22: in the online path the call that issues the remote request leaves
\* the cache list and the stored item as they are, and the list is modified
\* by the step in which the request resolves or fails; in the offline path
\* the list is modified within the call and no remote request is issued.
C22_CacheWrittenAfterRemote ==
  [][/\ last'.op \in StartOps =>
          /\ navOnline
          /\ applications' = applications
          /\ stored' = stored
          /\ inflight' = inflight (+) SetToBag({last'.req})
     /\ last'.op \in RemoteOkOps \cup RemoteFailOps =>
          /\ last'.req \in Outstanding
          /\ inflight' = inflight (-) SetToBag({last'.req})
          /\ Reflects(applications, applications', last')
     /\ last'.op \in OfflineOps =>
          /\ ~navOnline
          /\ inflight' = inflight
          /\ Reflects(applications, applications', last')]_vars

C22_Witness ==
  /\ last.op = "delStart"
  /\ last.req \in Outstanding
  /\ last.req.id \in Ids(applications)
  /\ Len(applications) > 1

AttemptOps == {"syncStart"} \cup StartOps \cup OfflineOps

\* C24 as stated: the start of a sync run and the start of an add, update or
\* delete each set error to null.
C24_ErrorClearedByEveryAttempt ==
  [][last'.op \in AttemptOps => syncStatus'.error = NullError]_vars

\* C24 amended: error is set to null when a sync run starts and when one
\* completes successfully; add, update and delete leave error as it is from
\* their start to their completion.
C24_ErrorClearedBySyncOnly ==
  [][/\ last'.op \in {"syncStart", "syncOk"} => syncStatus'.error = NullError
     /\ last'.op \in StartOps \cup OfflineOps \cup RemoteOkOps \cup RemoteFailOps =>
          syncStatus'.error = syncStatus.error]_vars

C24_Witness ==
  /\ last.op \in RemoteOkOps
  /\ syncStatus.error = SyncFailedMessage
  /\ SyncsInFlight = {}

\* C26: lastSync, in memory or in storage, changes only in a step in which a
\* remote create, update, delete or getAll has just succeeded, and every
\* such step sets it to the current time.
C26_LastSyncOnRemoteSuccess ==
  [][/\ (syncStatus'.lastSync # syncStatus.lastSync \/ lsLastSync' # lsLastSync) =>
          last'.op \in RemoteOkOps \cup {"syncOk"}
     /\ last'.op \in RemoteOkOps \cup {"syncOk"} =>
          /\ syncStatus'.lastSync = now
          /\ lsLastSync' # NoItem
          /\ ParseDate(lsLastSync') = now]_vars

C26_Witness ==
  /\ last.op = "updOk"
  /\ syncStatus.lastSync = now
  /\ lsLastSync = ToISOString(now)
  /\ Pending > 0
  /\ syncStatus.error = SyncFailedMessage

\* C27: isSyncing is true in exactly the states in which a sync run has its
\* fetch outstanding.
C27_IsSyncingTracksFetch ==
  syncStatus.isSyncing <=> SyncsInFlight # {}

\* the stored scalars as the mount-time load reads them
StoredPending == IF lsPending = NoItem THEN 0 ELSE ParseInt(lsPending)
StoredLastSync == IF lsLastSync = NoItem THEN NullDate ELSE ParseDate(lsLastSync)

\* C29: in every state pendingChanges in memory is a non-negative integer
\* equal to what the 'pendingChanges' key holds (an absent key reads as 0),
\* and lastSync in memory equals what the 'lastSync' key holds (both absent
\* before the first remote success).
C29_ScalarsMirrorStorage ==
  /\ Pending >= 0
  /\ Pending = StoredPending
  /\ syncStatus.lastSync = StoredLastSync
  /\ (syncStatus.lastSync = NullDate) <=> (lsLastSync = NoItem)

C29_Witness ==
  /\ Pending > 1
  /\ lsPending = NumberToString(Pending)
  /\ syncStatus.lastSync > StartTime
  /\ lsLastSync = ToISOString(syncStatus.lastSync)

\* C30: after every completed add, update, delete or sync made through the
\* sync manager the list handed to the list view equals the sync manager's
\* cache list.
C30_ViewShowsManagersList ==
  last.op \in OfflineOps \cup RemoteOkOps \cup RemoteFailOps \cup {"syncOk"} =>
    ui.applications = applications

\* C25: writes are suppressed during the initial load: the save effect of
\* the first render leaves the stored item as the load effect read it, and
\* when the item is a valid list the list in memory after the load is that
\* list and the item still holds it.
C25_NoWriteBeforeLoad ==
  [][last'.op = "load" =>
       /\ cache.isLoading
       /\ last'.resp[1] = stored
       /\ last'.resp[2] = last'.resp[1]
       /\ (stored.present /\ stored.wellFormed) =>
            /\ applications' = JSONParse(stored)
            /\ JSONParse(stored') = JSONParse(stored)
            /\ \A list \in CacheLists :
                 stored = JSONStringify(list) => applications' = list]_vars

C25_Witness ==
  /\ last.op = "load"
  /\ last.resp[2] = last.resp[1]
  /\ last.resp[1].present
  /\ Len(last.resp[1].entries) = 2
  /\ Len(applications) = 2
  /\ ~cache.isLoading
  /\ ~last.ok
  /\ stored = last.resp[1]

TargetsHeldId == last'.op = "cacheUpdate" /\ last'.req.id \in Ids(applications)

\* C28 as stated: after every updateApplication that targets an id the list
\* holds, with a partial payload or with a complete record carrying that id,
\* the record's updated_at is the time of the call.
C28_UpdatedAtAlwaysRefreshed ==
  [][TargetsHeldId =>
       \A i \in 1..Len(applications') :
          applications'[i].id = last'.req.id =>
            applications'[i].updated_at = now]_vars

\* C28 amended: a partial payload sets the record's updated_at to the time
\* of the call, whatever updated_at the payload carries; a complete record
\* carrying the same id replaces the cached record as it is, updated_at
\* included.
C28_UpdatedAtRefreshedByPartial ==
  [][TargetsHeldId =>
       \A i \in 1..Len(applications) :
          applications[i].id = last'.req.id =>
            IF PartialPayload(last'.resp[1])
            THEN applications'[i].updated_at = now
            ELSE applications'[i] = last'.resp[1]]_vars

C28_Witness ==
  /\ last.op = "cacheUpdate"
  /\ ~PartialPayload(last.resp[1])
  /\ last.req.id \in Ids(last.req.started.applications)
  /\ Holds(applications, last.resp[1])
  /\ last.resp[1].updated_at # now

====
